---- MODULE Spec2Model ----
(***************************************************************************)
(* binconf: integrity-checked binary persistence of one configuration      *)
(* value (src/src/binary_conf.rs) on top of the path resolver of           *)
(* src/src/lib.rs.  A file is a sequence of bytes 0..255; the record on    *)
(* disk is the 16 byte xxh3_128 digest of the payload followed by the      *)
(* bincode payload.                                                        *)
(***************************************************************************)
EXTENDS Integers, Sequences, FiniteSets, TLC

\* ------------------------------------------------------------------ bounds
\* longest String value that is stored
MaxStrLen == 1
\* largest u16 value that is stored
MaxU16 == 0
\* longest file an outside writer puts in place of the record
MaxJunk == 1
\* most application directories the get_configuration_path calls of one
\* behaviour create
MaxDirs == 3

\* ------------------------------------------------------- program constants
HASH_BYTE_LENGTH == 16

\* ------------------------------------------------------------------ values
\* The generic parameter T of load_bin / store_bin is instantiated with
\* String (as in tests::load_config_fallback) and with u16.
Types == {"String", "u16"}

\* characters of the stored strings ('a')
Chars == {97}
\* byte values an outside writer puts into the file: 0, 'o' (0x6F, the byte
\* tests::load_config_fallback writes) and 0xFF (never valid in UTF-8)
TamperBytes == {0, 111, 255}

StrVal(s) == [ty |-> "String", s |-> s, n |-> 0]
U16Val(n) == [ty |-> "u16", s |-> << >>, n |-> n]
NoVal == [ty |-> "none", s |-> << >>, n |-> 0]

RECURSIVE SeqsUpTo(_, _)
SeqsUpTo(S, k) ==
    IF k = 0 THEN {<< >>}
    ELSE LET shorter == SeqsUpTo(S, k - 1)
         IN  shorter \cup {Append(s, c) : s \in shorter, c \in S}

Values == {StrVal(s) : s \in SeqsUpTo(Chars, MaxStrLen)}
            \cup {U16Val(n) : n \in 0..MaxU16}

\* T::default()
Default(T) == IF T = "String" THEN StrVal(<< >>) ELSE U16Val(0)

\* Result<T, ConfigError>
Ok(v) == [kind |-> "Ok", err |-> "", val |-> v]
Err(e) == [kind |-> "Err", err |-> e, val |-> NoVal]
NoRes == [kind |-> "none", err |-> "", val |-> NoVal]
\* the call does not return: the thread panics or the process is aborted
Abort == [kind |-> "Abort", err |-> "", val |-> NoVal]

\* ------------------------------------------------------------------ bincode
Zeros(k) == [i \in 1..k |-> 0]
Drop(bytes, k) == SubSeq(bytes, k + 1, Len(bytes))
Take(bytes, k) == SubSeq(bytes, 1, k)

\* u64::to_le_bytes of a length below 256
U64Le(n) == <<n % 256>> \o Zeros(7)

\* bincode::serialize with the legacy options (fixed width integers, little
\* endian): a String is its u64 length followed by its bytes, a u16 is two bytes
serialize(v) ==
    IF v.ty = "String" THEN U64Le(Len(v.s)) \o v.s
    ELSE <<v.n % 256, v.n \div 256>>

\* std::str::from_utf8 on the byte values of the model: ASCII bytes are
\* characters, a continuation byte (0x80..0xBF) or 0xC0, 0xC1, 0xF5..0xFF as the
\* first byte of a character is an error, a lead byte needs its continuations
IsCont(b) == b >= 128 /\ b <= 191
RECURSIVE IsUtf8(_)
IsUtf8(bytes) ==
    IF bytes = << >> THEN TRUE
    ELSE LET b == bytes[1]
             need == IF b < 128 THEN 0
                     ELSE IF b >= 194 /\ b <= 223 THEN 1
                     ELSE IF b >= 224 /\ b <= 239 THEN 2
                     ELSE IF b >= 240 /\ b <= 244 THEN 3
                     ELSE 99
         IN  /\ need < 99
             /\ Len(bytes) >= 1 + need
             /\ \A i \in 2..(1 + need) : IsCont(bytes[i])
             /\ IsUtf8(Drop(bytes, 1 + need))

\* bincode::deserialize_from(&[u8]) into T; bytes after the value are not read
\* (the legacy functions allow trailing bytes).  A String needs its 8 length
\* bytes, then that many bytes, then valid UTF-8; a u16 needs 2 bytes.  The
\* payload is handed over as a reader and no size limit is set: bincode sizes
\* its buffer by the length prefix before it reads.  A prefix of 2^56 or more
\* (its top byte set) is beyond any address space: the resize panics with a
\* capacity overflow or the allocation fails and aborts the process.  A
\* smaller prefix beyond the bytes that are left is the error bincode returns
\* at the end of the input.
deserialize_from(T, bytes) ==
    IF T = "String" THEN
        IF Len(bytes) < 8 THEN Err("Bincode")
        ELSE IF bytes[8] # 0 THEN Abort
        ELSE LET high == \E i \in 2..8 : bytes[i] # 0
                 len == bytes[1]
             IN  IF high \/ len > Len(bytes) - 8 THEN Err("Bincode")
                 ELSE LET body == SubSeq(bytes, 9, 8 + len)
                      IN  IF IsUtf8(body) THEN Ok(StrVal(body))
                          ELSE Err("Bincode")
    ELSE
        IF Len(bytes) < 2 THEN Err("Bincode")
        ELSE Ok(U16Val(bytes[1] + 256 * bytes[2]))

\* ------------------------------------------------------------------ digest
\* xxh3_128(payload).to_le_bytes(): 16 bytes that depend on the length and on
\* every byte of the payload.  The digest of the model is free of collisions on
\* payloads of up to 15 bytes: byte 1 carries the length, byte k + 1 the
\* payload bytes at the positions k and k + 15.
DigestByte(payload, k) ==
    LET At(j) == IF j <= Len(payload) THEN payload[j] + 1 ELSE 0
    IN  IF k = 1 THEN (Len(payload) * 37 + 11) % 256
        ELSE (At(k - 1) + 3 * At(k + 14) + 7 * k) % 256

xxh3_128(payload) == [k \in 1..HASH_BYTE_LENGTH |-> DigestByte(payload, k)]

\* ------------------------------------------------------------ record codec
\* prepare_serialized_data with the digest taken over the whole buffer, the
\* zeroed placeholder included
prepare_serialized_data_whole_buffer(v) ==
    LET full_data == Zeros(HASH_BYTE_LENGTH) \o serialize(v)
        hash == xxh3_128(full_data)
    IN  hash \o Drop(full_data, HASH_BYTE_LENGTH)

\* prepare_serialized_data: 16 zeroed bytes followed by the serialized value,
\* then the digest of the bytes from offset 16 copied over the first 16 bytes
prepare_serialized_data(v) ==
    LET full_data == Zeros(HASH_BYTE_LENGTH) \o serialize(v)
        hash == xxh3_128(Drop(full_data, HASH_BYTE_LENGTH))
    IN  hash \o Drop(full_data, HASH_BYTE_LENGTH)

\* get_hash_from_file_and_data: (the first 16 bytes of the file, the digest of
\* the rest); called on files of at least 16 bytes only
get_hash_from_file_and_data(data) ==
    <<Take(data, HASH_BYTE_LENGTH), xxh3_128(Drop(data, HASH_BYTE_LENGTH))>>

\* ------------------------------------------------------------ path resolver
Locations == {"Config", "Cache", "LocalData", "Cwd"}
AppName == "app"
None == "None"

\* ConfigType::as_str
as_str(kind) ==
    CASE kind = "Toml" -> "toml"
      [] kind = "Json" -> "json"
      [] kind = "Yaml" -> "yml"
      [] kind = "Ron" -> "ron"
      [] kind = "Bin" -> "bin"

\* the base directory of a location: dirs::config_dir(), dirs::cache_dir(),
\* dirs::data_local_dir(), std::env::current_dir()
conf_base(location) ==
    CASE location = "Config" -> "config_dir"
      [] location = "Cache" -> "cache_dir"
      [] location = "LocalData" -> "data_local_dir"
      [] location = "Cwd" -> "current_dir"

\* PathBuf::join: a path is the sequence of its components; joining an
\* absolute name replaces the path
AbsoluteNames == {"/abs.cfg"}
join(path, name) ==
    IF name \in AbsoluteNames THEN <<name>> ELSE Append(path, name)

\* conf_dir = base.join(app_name), created when missing (see CreateDir)
conf_dir(app_name, location) == join(<<conf_base(location)>>, app_name)

\* config_location that appends the extension to a given config_name too
config_location_appends(app_name, config_name, extension, location) ==
    join(conf_dir(app_name, location),
         IF config_name = None THEN app_name \o "." \o extension
         ELSE config_name \o "." \o extension)

\* config_location: conf_file = conf_dir.join(config_name), or
\* conf_dir.join("{app_name}.{extension}") without a config_name
config_location(app_name, config_name, extension, location) ==
    join(conf_dir(app_name, location),
         IF config_name = None THEN app_name \o "." \o extension
         ELSE config_name)

Paths == {config_location(AppName, None, as_str("Bin"), l) : l \in Locations}

\* ------------------------------------------------------------------- files
NoFile == [exists |-> FALSE, data |-> << >>]
File(bytes) == [exists |-> TRUE, data |-> bytes]

\* ------------------------------------------------------------------- load
\* save_default_conf that writes the serialized default without its digest
save_default_conf_unframed(T) ==
    [res |-> Ok(Default(T)),
     file |-> File(serialize(Default(T))),
     wrote |-> TRUE]

\* save_default_conf: File::create, write the framed default, Ok(default)
save_default_conf(T) ==
    [res |-> Ok(Default(T)),
     file |-> File(prepare_serialized_data(Default(T))),
     wrote |-> TRUE]

\* a return that leaves the file as it is
Return(res, file) == [res |-> res, file |-> file, wrote |-> FALSE]

\* load_bin_internal with one slip:
\*   "inverted_skip"     the digest is verified when skip_hash_check is set
\*   "mismatch_no_write" a digest mismatch with reset returns the default
\*                       and writes nothing
\*   "short_no_reset"    a short file is an error also with reset
\*   "decode_default"    an undecodable payload without reset returns the
\*                       default instead of the error
\*   "decode_no_write"   an undecodable payload with reset returns the default
\*                       and writes nothing
\*   "size_inclusive"    a file of exactly 16 bytes is short too
\*   "skip_short_error"  with skip_hash_check a short file is an error also
\*                       with reset
\*   "valid_resaves"     with reset a record that decodes is written again
load_bin_internal_slip(slip, T, file, reset_conf_on_err, skip_hash_check) ==
    LET verify == IF slip = "inverted_skip" THEN skip_hash_check
                  ELSE ~skip_hash_check
    IN
    IF ~file.exists THEN save_default_conf(T)
    ELSE LET data == file.data IN
    IF \/ Len(data) < HASH_BYTE_LENGTH
       \/ (slip = "size_inclusive" /\ Len(data) = HASH_BYTE_LENGTH) THEN
        IF /\ reset_conf_on_err
           /\ slip # "short_no_reset"
           /\ ~(slip = "skip_short_error" /\ skip_hash_check)
        THEN save_default_conf(T)
        ELSE Return(Err("CorruptedHashSector"), file)
    ELSE LET hashes == get_hash_from_file_and_data(data) IN
    IF verify /\ hashes[1] # hashes[2] THEN
        IF reset_conf_on_err THEN
            IF slip = "mismatch_no_write" THEN Return(Ok(Default(T)), file)
            ELSE save_default_conf(T)
        ELSE Return(Err("HashMismatch"), file)
    ELSE LET config == deserialize_from(T, Drop(data, HASH_BYTE_LENGTH)) IN
    IF config.kind = "Ok" THEN
        IF slip = "valid_resaves" /\ reset_conf_on_err
        THEN [res |-> config,
              file |-> File(prepare_serialized_data(config.val)),
              wrote |-> TRUE]
        ELSE Return(config, file)
    ELSE IF config = Abort THEN Return(Abort, file)
    ELSE IF reset_conf_on_err THEN
        IF slip = "decode_no_write" THEN Return(Ok(Default(T)), file)
        ELSE save_default_conf(T)
    ELSE IF slip = "decode_default" THEN Return(Ok(Default(T)), file)
    ELSE Return(config, file)

load_bin_internal_inverted_skip(T, file, reset_conf_on_err, skip_hash_check) ==
    load_bin_internal_slip("inverted_skip", T, file, reset_conf_on_err,
                           skip_hash_check)
load_bin_internal_mismatch_no_write(T, file, reset_conf_on_err, skip_hash_check) ==
    load_bin_internal_slip("mismatch_no_write", T, file, reset_conf_on_err,
                           skip_hash_check)
load_bin_internal_short_no_reset(T, file, reset_conf_on_err, skip_hash_check) ==
    load_bin_internal_slip("short_no_reset", T, file, reset_conf_on_err,
                           skip_hash_check)
load_bin_internal_decode_default(T, file, reset_conf_on_err, skip_hash_check) ==
    load_bin_internal_slip("decode_default", T, file, reset_conf_on_err,
                           skip_hash_check)
load_bin_internal_decode_no_write(T, file, reset_conf_on_err, skip_hash_check) ==
    load_bin_internal_slip("decode_no_write", T, file, reset_conf_on_err,
                           skip_hash_check)
load_bin_internal_size_inclusive(T, file, reset_conf_on_err, skip_hash_check) ==
    load_bin_internal_slip("size_inclusive", T, file, reset_conf_on_err,
                           skip_hash_check)
load_bin_internal_skip_short_error(T, file, reset_conf_on_err, skip_hash_check) ==
    load_bin_internal_slip("skip_short_error", T, file, reset_conf_on_err,
                           skip_hash_check)
load_bin_internal_valid_resaves(T, file, reset_conf_on_err, skip_hash_check) ==
    load_bin_internal_slip("valid_resaves", T, file, reset_conf_on_err,
                           skip_hash_check)

\* load_bin_internal on the file found at the resolved path: the result, the
\* file it leaves and whether it created (truncated and wrote) the file
load_bin_internal(T, file, reset_conf_on_err, skip_hash_check) ==
    IF ~file.exists THEN save_default_conf(T)
    ELSE LET data == file.data IN
    IF Len(data) < HASH_BYTE_LENGTH THEN
        IF reset_conf_on_err THEN save_default_conf(T)
        ELSE Return(Err("CorruptedHashSector"), file)
    ELSE LET hashes == get_hash_from_file_and_data(data) IN
    IF ~skip_hash_check /\ hashes[1] # hashes[2] THEN
        IF reset_conf_on_err THEN save_default_conf(T)
        ELSE Return(Err("HashMismatch"), file)
    ELSE LET config == deserialize_from(T, Drop(data, HASH_BYTE_LENGTH)) IN
    IF config.kind = "Ok" THEN Return(config, file)
    ELSE IF config = Abort THEN Return(Abort, file)
    ELSE IF reset_conf_on_err THEN save_default_conf(T)
    ELSE Return(config, file)

\* what a load finds at the path, for the type T it decodes into
FileClass(T, file) ==
    IF ~file.exists THEN "absent"
    ELSE IF Len(file.data) < HASH_BYTE_LENGTH THEN "short"
    ELSE LET payload == Drop(file.data, HASH_BYTE_LENGTH)
             matches == Take(file.data, HASH_BYTE_LENGTH) = xxh3_128(payload)
             config == deserialize_from(T, payload)
             decodes == config.kind = "Ok"
         IN  IF config = Abort
             THEN (IF matches THEN "overlong" ELSE "mismatch_overlong")
             ELSE IF matches THEN (IF decodes THEN "valid" ELSE "undecodable")
             ELSE (IF decodes THEN "mismatch" ELSE "mismatch_undecodable")

\* ------------------------------------------------------------------- state
VARIABLES
    fs,        \* the file at each path: absent, or its bytes
    dirs,      \* the application directories that exist
    origin,    \* for each path, how its file came to be what it is
    last,      \* the last step: operation, arguments, result
    proc       \* the calls in progress when calls run step by step

vars == <<fs, dirs, origin, last, proc>>

\* by: the library write that made the file (store_bin, bootstrap: the default
\* written where no file was, reset: the default written over a file), val: the
\* value it wrote, over: the value of the store_bin record it replaced;
\* tamper, pos: the change made from outside since that write
NoOrigin == [by |-> "none", val |-> NoVal, over |-> NoVal,
             tamper |-> "none", pos |-> 0]

Written(by, val, old) ==
    [by |-> by, val |-> val,
     over |-> IF old.by = "store_bin" /\ old.tamper = "none" THEN old.val
              ELSE NoVal,
     tamper |-> "none", pos |-> 0]

\* what a step keeps of the origin of the file it met; region: the part of the
\* record the byte changed from outside lies in
Region(o) ==
    IF o.tamper # "corrupt" THEN "none"
    ELSE IF o.pos > HASH_BYTE_LENGTH THEN "payload" ELSE "digest"

From(o) == [by |-> o.by, val |-> o.val, over |-> o.over, tamper |-> o.tamper,
            region |-> Region(o)]

\* from: the origin of the file the step met, found: what that file was
\* (FileClass), wrote: the call created the file, kept: the file after the call
\* is the file before it, path: the path the call resolved, args: its
\* app_name, config_name and ConfigType
NoCall == [op |-> "none", loc |-> "none", ty |-> "none", val |-> NoVal,
           reset |-> FALSE, res |-> NoRes, from |-> From(NoOrigin),
           found |-> "none", wrote |-> FALSE, kept |-> TRUE, path |-> << >>,
           args |-> << >>]

\* the path load_bin and store_bin resolve
BinPath(location) == config_location(AppName, None, as_str("Bin"), location)

\* A call that runs step by step (see "the steps of a call" below): op and the
\* arguments, pc: the statement it is at, buf, off: the bytes in its BufWriter
\* and how many of them are in the file, data: the bytes read so far, res: its
\* return value.  created: it ran File::create; alone: nothing else created
\* or wrote the file since; latest: its write was the last to complete;
\* failed: the operation of it that met an I/O error, or "vanished" when the
\* file was deleted after its try_exists.
Procs == {"p", "q", "r"}
Idle == [op |-> "none", ty |-> "none", val |-> NoVal, reset |-> FALSE,
         skip |-> FALSE, pc |-> "idle", buf |-> << >>, off |-> 0,
         data |-> << >>, res |-> NoRes, created |-> FALSE, alone |-> FALSE,
         latest |-> FALSE, failed |-> "none"]

Init ==
    /\ fs = [p \in Paths |-> NoFile]
    /\ dirs = {}
    /\ origin = [p \in Paths |-> NoOrigin]
    /\ last = NoCall
    /\ proc = [p \in Procs |-> Idle]

\* config_location creates conf_dir when it does not exist
CreateDir(location) == dirs' = dirs \cup {conf_dir(AppName, location)}

\* store_bin that opens the file without truncating it: the bytes of the old
\* file beyond the new record stay
store_bin_no_truncate(location, data) ==
    LET path == BinPath(location)
        new == prepare_serialized_data(data)
        file == File(new \o Drop(fs[path].data, Len(new)))
    IN  /\ CreateDir(location)
        /\ fs' = [fs EXCEPT ![path] = file]
        /\ origin' = [origin EXCEPT ![path] = Written("store_bin", data, @)]
        /\ last' = [op |-> "store_bin", loc |-> location, ty |-> data.ty,
                    val |-> data, reset |-> FALSE, res |-> Ok(NoVal),
                    from |-> From(origin[path]), found |-> "none",
                    wrote |-> TRUE, kept |-> (file = fs[path]),
                    path |-> path, args |-> <<AppName, None, "Bin">>]
        /\ UNCHANGED proc

\* store_bin(app, None, location, data): File::create truncates, write_all
\* writes the framed record, the BufWriter is flushed when it is dropped
store_bin(location, data) ==
    LET path == BinPath(location)
        file == File(prepare_serialized_data(data))
    IN  /\ CreateDir(location)
        /\ fs' = [fs EXCEPT ![path] = file]
        /\ origin' = [origin EXCEPT ![path] = Written("store_bin", data, @)]
        /\ last' = [op |-> "store_bin", loc |-> location, ty |-> data.ty,
                    val |-> data, reset |-> FALSE, res |-> Ok(NoVal),
                    from |-> From(origin[path]), found |-> "none",
                    wrote |-> TRUE, kept |-> (file = fs[path]),
                    path |-> path, args |-> <<AppName, None, "Bin">>]
        /\ UNCHANGED proc

\* a load that also resets on an error when an earlier load has reset the file
Load_sticky_reset(op, location, T, reset_conf_on_err, skip_hash_check) ==
    LET path == BinPath(location)
        sticky == reset_conf_on_err \/ origin[path].by = "reset"
    IN
    \E out \in {load_bin_internal(T, fs[path], sticky, skip_hash_check)} :
        /\ CreateDir(location)
        /\ fs' = [fs EXCEPT ![path] = out.file]
        /\ origin' = IF out.wrote
                     THEN [origin EXCEPT ![path] =
                            Written(IF fs[path].exists THEN "reset" ELSE "bootstrap",
                                    Default(T), @)]
                     ELSE origin
        /\ last' = [op |-> op, loc |-> location, ty |-> T, val |-> NoVal,
                    reset |-> reset_conf_on_err, res |-> out.res,
                    from |-> From(origin[path]),
                    found |-> FileClass(T, fs[path]),
                    wrote |-> out.wrote, kept |-> (out.file = fs[path]),
                    path |-> path, args |-> <<AppName, None, "Bin">>]
        /\ UNCHANGED proc

\* load_bin_internal as one step, on the file as it is when the call is made
Load(op, location, T, reset_conf_on_err, skip_hash_check) ==
    LET path == BinPath(location) IN
    \E out \in {load_bin_internal(T, fs[path], reset_conf_on_err, skip_hash_check)} :
        /\ CreateDir(location)
        /\ fs' = [fs EXCEPT ![path] = out.file]
        /\ origin' = IF out.wrote
                     THEN [origin EXCEPT ![path] =
                            Written(IF fs[path].exists THEN "reset" ELSE "bootstrap",
                                    Default(T), @)]
                     ELSE origin
        /\ last' = [op |-> op, loc |-> location, ty |-> T, val |-> NoVal,
                    reset |-> reset_conf_on_err, res |-> out.res,
                    from |-> From(origin[path]),
                    found |-> FileClass(T, fs[path]),
                    wrote |-> out.wrote, kept |-> (out.file = fs[path]),
                    path |-> path, args |-> <<AppName, None, "Bin">>]
        /\ UNCHANGED proc

\* load_bin::<T>(app, None, location, reset_conf_on_err)
load_bin(location, T, reset_conf_on_err) ==
    Load("load_bin", location, T, reset_conf_on_err, FALSE)

\* load_bin_skip_check that passes skip_hash_check = false
load_bin_skip_check_verifies(location, T, reset_conf_on_err) ==
    Load("load_bin_skip_check", location, T, reset_conf_on_err, FALSE)

\* load_bin_skip_check::<T>(app, None, location, reset_conf_on_err)
load_bin_skip_check(location, T, reset_conf_on_err) ==
    Load("load_bin_skip_check", location, T, reset_conf_on_err, TRUE)

\* ------------------------------------------------------ outside the library
\* Another program changes the file between two calls, once per record the
\* library wrote (tests::load_config_fallback overwrites the last byte).
Outside(op, location, file, pos) ==
    LET path == BinPath(location) IN
    /\ origin[path].tamper = "none"
    /\ fs' = [fs EXCEPT ![path] = file]
    /\ origin' = [origin EXCEPT ![path].tamper = op, ![path].pos = pos]
    /\ last' = [NoCall EXCEPT !.op = op, !.loc = location,
                              !.from = From(origin[path]),
                              !.kept = (file = fs[path]),
                              !.path = path]
    /\ UNCHANGED <<dirs, proc>>

\* one byte of the file (offset i - 1) is changed to b
CorruptByte(location, i, b) ==
    LET cur == fs[BinPath(location)] IN
    /\ origin[BinPath(location)].tamper = "none"
    /\ cur.exists
    /\ i \in 1..Len(cur.data)
    /\ b # cur.data[i]
    /\ Outside("corrupt", location, File([cur.data EXCEPT ![i] = b]), i)

\* the file is cut to its first n bytes
Truncate(location, n) ==
    LET cur == fs[BinPath(location)] IN
    /\ origin[BinPath(location)].tamper = "none"
    /\ cur.exists
    /\ n < Len(cur.data)
    /\ Outside("truncate", location, File(Take(cur.data, n)), n)

\* the file is replaced by a short file of other bytes
Overwrite(location, bytes) ==
    /\ conf_dir(AppName, location) \in dirs
    /\ Outside("overwrite", location, File(bytes), Len(bytes))

\* the file is deleted
Remove(location) ==
    /\ fs[BinPath(location)].exists
    /\ Outside("remove", location, NoFile, 0)

MaxRecordLen == HASH_BYTE_LENGTH + 8 + MaxStrLen
JunkFiles == SeqsUpTo({0, 255}, MaxJunk)

\* Spec: every call is made with the location Config, and the file is
\* changed from outside between calls
MainLoc == "Config"

Next ==
    \/ \E v \in Values : store_bin(MainLoc, v)
    \/ \E T \in Types, r \in BOOLEAN : load_bin(MainLoc, T, r)
    \/ \E T \in Types, r \in BOOLEAN : load_bin_skip_check(MainLoc, T, r)
    \/ \E i \in 1..MaxRecordLen, b \in TamperBytes : CorruptByte(MainLoc, i, b)
    \/ \E n \in 0..MaxRecordLen : Truncate(MainLoc, n)
    \/ \E bytes \in JunkFiles : Overwrite(MainLoc, bytes)
    \/ Remove(MainLoc)

Spec == Init /\ [][Next]_vars

\* SpecLocations: the calls are made with any of the four locations, and
\* nothing but the library writes the files
LocValues == {StrVal(<<97>>)}

NextLocations ==
    \/ \E l \in Locations, v \in LocValues : store_bin(l, v)
    \/ \E l \in Locations, r \in BOOLEAN : load_bin(l, "String", r)

SpecLocations == Init /\ [][NextLocations]_vars

\* SpecOneType: a program that makes its calls one after the other, all with
\* one type T, on one path; nothing but the library writes the file
OneTypeValues == Values \cup {U16Val(1), U16Val(256)}

OneType(T) == last.ty \in {"none", T}

NextOneType ==
    \/ \E v \in OneTypeValues : OneType(v.ty) /\ store_bin(MainLoc, v)
    \/ \E T \in Types, r \in BOOLEAN : OneType(T) /\ load_bin(MainLoc, T, r)
    \/ \E T \in Types, r \in BOOLEAN :
           OneType(T) /\ load_bin_skip_check(MainLoc, T, r)

SpecOneType == Init /\ [][NextOneType]_vars

\* ------------------------------------------------- get_configuration_path
Kinds == {"Toml", "Json", "Yaml", "Ron", "Bin"}
Apps == {AppName, "other"}
Names == {None, "custom.cfg"} \cup AbsoluteNames

\* get_configuration_path that creates the file it names
get_configuration_path_creates(app_name, config_name, kind, location) ==
    LET path == config_location(app_name, config_name, as_str(kind), location)
    IN  /\ dirs' = dirs \cup {conf_dir(app_name, location)}
        /\ fs' = [p \in Paths |-> IF p = path THEN File(<< >>) ELSE fs[p]]
        /\ last' = [NoCall EXCEPT !.op = "get_configuration_path",
                                  !.loc = location, !.path = path,
                                  !.args = <<app_name, config_name, kind>>]
        /\ UNCHANGED <<origin, proc>>

\* get_configuration_path(app_name, config_name, config_extension, location):
\* config_location with the extension of the ConfigType; it creates conf_dir
\* when that is missing and touches nothing else
get_configuration_path(app_name, config_name, kind, location) ==
    LET path == config_location(app_name, config_name, as_str(kind), location)
    IN  /\ dirs' = dirs \cup {conf_dir(app_name, location)}
        /\ last' = [NoCall EXCEPT !.op = "get_configuration_path",
                                  !.loc = location, !.path = path,
                                  !.args = <<app_name, config_name, kind>>]
        /\ UNCHANGED <<fs, origin, proc>>

\* SpecPath: get_configuration_path with every app_name, config_name,
\* ConfigType and location, between store_bin and load_bin calls at Config
NextPath ==
    \/ \E a \in Apps, n \in Names, k \in Kinds, l \in Locations :
        /\ Cardinality(dirs \cup {conf_dir(a, l)}) <= MaxDirs
        /\ get_configuration_path(a, n, k, l)
    \/ \E v \in LocValues : store_bin(MainLoc, v)
    \/ \E r \in BOOLEAN : load_bin(MainLoc, "String", r)

SpecPath == Init /\ [][NextPath]_vars

\* ---------------------------------------------------- the steps of a call
\* The calls of the specifications below run statement by statement, so that
\* other calls, failures of the file system and the death of the process fall
\* between the statements.  All of them use the location Config.
StepPath == BinPath(MainLoc)

\* capacity of std::io::BufWriter::new: write_all of fewer bytes only copies
\* them into the buffer, and they reach the file when the BufWriter is
\* dropped; the result of that flush is discarded
BufCapacity == 8192

\* the byte counts one read or write system call may transfer when `len`
\* bytes are left from the file offset `off`: all of them, or the bytes up to
\* one of the offsets in `cuts`
Sizes(len, off, cuts) ==
    {len} \cup {c - off : c \in {k \in cuts : off < k /\ k < off + len}}
Whole == {}
AnyCut == 1..MaxRecordLen
MidCuts == {HASH_BYTE_LENGTH \div 2, HASH_BYTE_LENGTH, HASH_BYTE_LENGTH + 1}

\* write(2) of bytes at the offset off of a file that holds data
WriteAt(data, off, bytes) ==
    LET head == IF Len(data) >= off THEN Take(data, off)
                ELSE data \o Zeros(off - Len(data))
    IN  head \o bytes \o Drop(data, off + Len(bytes))

\* the call p moves on; the file is as it was
Moves(p, new) ==
    /\ proc' = [proc EXCEPT ![p] = new]
    /\ UNCHANGED <<fs, origin, last>>

\* the call p changes the file
Writes(p, new, file) ==
    /\ fs' = [fs EXCEPT ![StepPath] = file]
    /\ proc' = [x \in Procs |->
                 IF x = p THEN new
                 ELSE [proc[x] EXCEPT !.alone = FALSE,
                                      !.latest = @ /\ ~new.latest]]
    /\ UNCHANGED <<dirs, origin, last>>

\* the call is made: store_bin(app, None, Config, data), or
\* load_bin::<T> / load_bin_skip_check::<T>(app, None, Config, reset)
Call(p, op, T, data, reset_conf_on_err, skip_hash_check) ==
    /\ proc[p].pc = "idle"
    /\ Moves(p, [Idle EXCEPT !.op = op, !.ty = T, !.val = data,
                             !.reset = reset_conf_on_err,
                             !.skip = skip_hash_check, !.pc = "resolve"])
    /\ UNCHANGED dirs

\* crate::config_location(..)?
Resolve(p) ==
    /\ proc[p].pc = "resolve"
    /\ CreateDir(MainLoc)
    /\ Moves(p, [proc[p] EXCEPT !.pc = IF proc[p].op = "store_bin"
                                        THEN "create" ELSE "exists"])

\* if !config_file_path.try_exists()? { return save_default_conf(); }
TryExists(p) ==
    /\ proc[p].pc = "exists"
    /\ Moves(p, IF fs[StepPath].exists THEN [proc[p] EXCEPT !.pc = "open"]
                ELSE [proc[p] EXCEPT !.pc = "create",
                                     !.val = Default(proc[p].ty)])
    /\ UNCHANGED dirs

\* File::open that goes on to save_default_conf when the file is not there
Open_bootstrap(p) ==
    /\ proc[p].pc = "open"
    /\ Moves(p, IF fs[StepPath].exists THEN [proc[p] EXCEPT !.pc = "read"]
                ELSE [proc[p] EXCEPT !.pc = "create",
                                     !.val = Default(proc[p].ty)])
    /\ UNCHANGED dirs

\* std::fs::File::open(&config_file_path)?: a file that is no longer there is
\* the error NotFound
Open(p) ==
    /\ proc[p].pc = "open"
    /\ Moves(p, IF fs[StepPath].exists THEN [proc[p] EXCEPT !.pc = "read"]
                ELSE [proc[p] EXCEPT !.pc = "done", !.res = Err("Io")])
    /\ UNCHANGED dirs

\* reader.read_to_end(&mut data)?: one read(2) at the offset reached, of the
\* bytes the file holds there now; at the end of the file the checks of
\* load_bin_internal run on the bytes read, and end the call or go on to
\* save_default_conf
Read(p, cuts) ==
    LET me == proc[p]
        avail == Drop(fs[StepPath].data, Len(me.data))
    IN  /\ me.pc = "read"
        /\ UNCHANGED dirs
        /\ IF avail # << >>
           THEN \E n \in Sizes(Len(avail), Len(me.data), cuts) :
                    Moves(p, [me EXCEPT !.data = @ \o Take(avail, n)])
           ELSE \E out \in {load_bin_internal(me.ty, File(me.data),
                                              me.reset, me.skip)} :
                    Moves(p, IF out.wrote
                             THEN [me EXCEPT !.pc = "create",
                                             !.val = Default(me.ty)]
                             ELSE [me EXCEPT !.pc = "done", !.res = out.res])

\* File::create that opens the file without truncating it
Create_no_truncate(p) ==
    LET me == proc[p] IN
    /\ me.pc = "create"
    /\ Writes(p, [me EXCEPT !.pc = "flush",
                            !.buf = prepare_serialized_data(me.val),
                            !.res = IF me.op = "store_bin" THEN Ok(NoVal)
                                    ELSE Ok(me.val),
                            !.created = TRUE, !.alone = TRUE],
              File(fs[StepPath].data))

\* BufWriter::new(File::create(..)?), prepare_serialized_data(..)?,
\* file.write_all(&full_data)?: the file is created or truncated, the record
\* is in the buffer, and the call goes on to return Ok
Create(p) ==
    LET me == proc[p] IN
    /\ me.pc = "create"
    /\ Writes(p, [me EXCEPT !.pc = "flush",
                            !.buf = prepare_serialized_data(me.val),
                            !.res = IF me.op = "store_bin" THEN Ok(NoVal)
                                    ELSE Ok(me.val),
                            !.created = TRUE, !.alone = TRUE],
              File(<< >>))

\* the buffer reaches the file: one write(2) at the offset reached; after the
\* last of them the call returns
Flush(p, cuts) ==
    LET me == proc[p]
        rest == Drop(me.buf, me.off)
    IN  /\ me.pc = "flush"
        /\ \E n \in Sizes(Len(rest), me.off, cuts) :
            Writes(p, [me EXCEPT !.off = @ + n,
                                 !.pc = IF n = Len(rest) THEN "done" ELSE @,
                                 !.latest = (n = Len(rest))],
                   File(WriteAt(fs[StepPath].data, me.off, Take(rest, n))))

\* an operation on the file system returns an I/O error, and `?` returns it
Fail(p) ==
    /\ proc[p].pc \in {"resolve", "exists", "open", "read", "create"}
    /\ Moves(p, [proc[p] EXCEPT !.pc = "done", !.res = Err("Io"),
                                !.failed = proc[p].pc])
    /\ UNCHANGED dirs

\* write(2) returns an I/O error (the disk is full): write_all returns it when
\* it writes through (a record of BufCapacity bytes or more); the flush of the
\* dropped BufWriter discards it, and the call returns what it was to return
WriteFail(p) ==
    LET me == proc[p] IN
    /\ me.pc = "flush"
    /\ Moves(p, [me EXCEPT !.pc = "done", !.failed = "write",
                           !.res = IF Len(me.buf) >= BufCapacity
                                   THEN Err("Io") ELSE @])
    /\ UNCHANGED dirs

\* the process dies before the buffer has reached the file
Crash(p) ==
    /\ proc[p].pc = "flush"
    /\ Moves(p, [proc[p] EXCEPT !.pc = "crashed"])
    /\ UNCHANGED dirs

\* the caller has the result; the next call may be made
Finish(p) ==
    /\ proc[p].pc \in {"done", "crashed"}
    /\ Moves(p, Idle)
    /\ UNCHANGED dirs

\* another program deletes the file while no call has it open; a call that is
\* between try_exists and File::open has seen a file that has now vanished
Unlink ==
    /\ fs[StepPath].exists
    /\ \A p \in Procs : proc[p].pc \notin {"read", "flush"}
    /\ fs' = [fs EXCEPT ![StepPath] = NoFile]
    /\ proc' = [p \in Procs |->
                 IF proc[p].pc = "open"
                 THEN [proc[p] EXCEPT !.failed = "vanished"] ELSE proc[p]]
    /\ UNCHANGED <<dirs, origin, last>>

Quiet(p) == proc[p].pc \in {"idle", "done", "crashed"}

\* SpecInterrupt: a store_bin whose process may die at any byte of the record,
\* and load_bin(reset_conf_on_err = false) calls made while no store runs
NextInterrupt ==
    \/ \E v \in Values :
        proc["r"].pc = "idle" /\ Call("p", "store_bin", v.ty, v, FALSE, FALSE)
    \/ \E T \in Types :
        Quiet("p") /\ Call("r", "load_bin", T, NoVal, FALSE, FALSE)
    \/ \E x \in {"p", "r"} : Resolve(x)
    \/ TryExists("r")
    \/ Open("r")
    \/ Read("r", Whole)
    \/ \E x \in {"p", "r"} : Create(x)
    \/ Flush("p", AnyCut)
    \/ Flush("r", Whole)
    \/ Crash("p")
    \/ proc["r"].pc = "idle" /\ Finish("p")
    \/ Finish("r")

SpecInterrupt == Init /\ [][NextInterrupt]_vars

\* the values of the calls that run at the same time: the strings, and two
\* u16 whose two bytes both differ
StepValues == {StrVal(s) : s \in SeqsUpTo(Chars, MaxStrLen)}
                \cup {U16Val(1), U16Val(256)}

\* SpecRace: two store_bin calls run at the same time, statement by statement
\* and write by write; when both have returned, a load_bin(reset_conf_on_err =
\* false) is made
NextRace ==
    \/ \E x \in {"p", "q"}, v \in StepValues :
        Call(x, "store_bin", v.ty, v, FALSE, FALSE)
    \/ \E T \in Types :
        /\ proc["p"].pc = "done"
        /\ proc["q"].pc = "done"
        /\ Call("r", "load_bin", T, NoVal, FALSE, FALSE)
    \/ \E x \in Procs : Resolve(x)
    \/ TryExists("r")
    \/ Open("r")
    \/ Read("r", Whole)
    \/ \E x \in {"p", "q"} : Create(x)
    \/ \E x \in {"p", "q"} : Flush(x, MidCuts)

SpecRace == Init /\ [][NextRace]_vars

\* SpecReadWrite: the file holds the record a store_bin of v_old has written;
\* a store_bin and a load_bin(reset_conf_on_err = false) run at the same time,
\* statement by statement, write by write and read by read
InitReadWrite ==
    \E v_old \in StepValues :
        /\ fs = [path \in Paths |->
                  IF path = StepPath THEN File(prepare_serialized_data(v_old))
                  ELSE NoFile]
        /\ dirs = {conf_dir(AppName, MainLoc)}
        /\ origin = [path \in Paths |->
                      IF path = StepPath
                      THEN Written("store_bin", v_old, NoOrigin)
                      ELSE NoOrigin]
        /\ last = NoCall
        /\ proc = [x \in Procs |-> Idle]

NextReadWrite ==
    \/ \E v_new \in StepValues :
        Call("p", "store_bin", v_new.ty, v_new, FALSE, FALSE)
    \/ \E T \in Types : Call("r", "load_bin", T, NoVal, FALSE, FALSE)
    \/ \E x \in {"p", "r"} : Resolve(x)
    \/ TryExists("r")
    \/ Open("r")
    \/ Read("r", MidCuts)
    \/ Create("p")
    \/ Flush("p", MidCuts)

SpecReadWrite == InitReadWrite /\ [][NextReadWrite]_vars

\* SpecStoreReset: over the record of v_old a store_bin and a
\* load_bin(reset_conf_on_err = true) run at the same time; the load that
\* reads a part of the new record goes on to save_default_conf
NextStoreReset ==
    \/ \E v_new \in StepValues :
        Call("p", "store_bin", v_new.ty, v_new, FALSE, FALSE)
    \/ \E T \in Types : Call("r", "load_bin", T, NoVal, TRUE, FALSE)
    \/ \E x \in {"p", "r"} : Resolve(x)
    \/ TryExists("r")
    \/ Open("r")
    \/ Read("r", MidCuts)
    \/ \E x \in {"p", "r"} : Create(x)
    \/ \E x \in {"p", "r"} : Flush(x, MidCuts)

SpecStoreReset == InitReadWrite /\ [][NextStoreReset]_vars

\* SpecIo: one call at a time, statement by statement, on a file system whose
\* operations may fail and where another program may delete the file between
\* two statements
NextIo ==
    \/ \E v \in Values : Call("p", "store_bin", v.ty, v, FALSE, FALSE)
    \/ \E T \in Types, r \in BOOLEAN : Call("p", "load_bin", T, NoVal, r, FALSE)
    \/ Resolve("p")
    \/ TryExists("p")
    \/ Open("p")
    \/ Read("p", Whole)
    \/ Create("p")
    \/ Flush("p", {HASH_BYTE_LENGTH})
    \/ Fail("p")
    \/ WriteFail("p")
    \/ Unlink
    \/ Finish("p")

SpecIo == Init /\ [][NextIo]_vars

\* ------------------------------------------------------------- text formats
\* load_toml / load_json / load_yaml / load_ron and their stores write the
\* string of the format's serializer, without a digest.  The values are a
\* String, a u16 and a struct with one String field (tests::TestConfig without
\* its test_vec).
TextKinds == {"Toml", "Json", "Yaml", "Ron"}
TextTypes == Types \cup {"TestConfig"}

CfgVal(s) == [ty |-> "TestConfig", s |-> s, n |-> 0]

TextValues == OneTypeValues \cup {CfgVal(s) : s \in SeqsUpTo(Chars, MaxStrLen)}

\* T::default() of the three types
TextDefault(T) == IF T = "TestConfig" THEN CfgVal(<< >>) ELSE Default(T)

\* Result<String, _> of a serializer
Str(bytes) == [kind |-> "Ok", err |-> "", bytes |-> bytes]
StrErr(e) == [kind |-> "Err", err |-> e, bytes |-> << >>]

\* the characters of the formats
Quote == <<34>>
Apostrophe == <<39>>
Newline == <<10>>
Tab == <<9>>
Space == <<32>>
Whitespace == {9, 10, 13, 32}
DigitChars == 48..57
TestKey == <<116, 101, 115, 116>>

\* the decimal digits of n
RECURSIVE Digits(_)
Digits(n) == IF n < 10 THEN <<48 + n>> ELSE Append(Digits(n \div 10), 48 + (n % 10))

RECURSIVE Number(_)
Number(digits) ==
    IF digits = << >> THEN 0
    ELSE 10 * Number(Take(digits, Len(digits) - 1)) + (digits[Len(digits)] - 48)

Quoted(s) == Quote \o s \o Quote

\* the text without the whitespace around it, and without any whitespace
RECURSIVE TrimLeft(_)
TrimLeft(text) ==
    IF text # << >> /\ text[1] \in Whitespace THEN TrimLeft(Drop(text, 1))
    ELSE text
RECURSIVE TrimRight(_)
TrimRight(text) ==
    IF text # << >> /\ text[Len(text)] \in Whitespace
    THEN TrimRight(Take(text, Len(text) - 1))
    ELSE text
Trim(text) == TrimRight(TrimLeft(text))
Strip(text) == SelectSeq(text, LAMBDA c : c \notin Whitespace)

StartsWith(text, prefix) ==
    Len(text) >= Len(prefix) /\ Take(text, Len(prefix)) = prefix
EndsWith(text, suffix) ==
    Len(text) >= Len(suffix)
    /\ Drop(text, Len(text) - Len(suffix)) = suffix

\* the characters between a pair of quotes q, when text is such a string
\* without escapes
IsQuoted(text, q) ==
    /\ Len(text) >= 2
    /\ text[1] = q[1]
    /\ text[Len(text)] = q[1]
    /\ \A i \in 2..(Len(text) - 1) : text[i] \notin {q[1], 92} /\ text[i] >= 32
Inner(text) == SubSeq(text, 2, Len(text) - 1)

\* a decimal number that fits a u16
IsU16(text) ==
    /\ text # << >>
    /\ Len(text) <= 5
    /\ \A i \in 1..Len(text) : text[i] \in DigitChars
    /\ (Len(text) > 1 => text[1] # 48)
    /\ Number(text) <= 65535

\* String / u16 between the whitespace a parser skips, strings in quotes q
Scalar(T, text, q, e) ==
    IF T = "String" /\ IsQuoted(Trim(text), q) THEN Ok(StrVal(Inner(Trim(text))))
    ELSE IF T = "u16" /\ IsU16(Trim(text)) THEN Ok(U16Val(Number(Trim(text))))
    ELSE Err(e)

\* the struct written as head (up to the separator after the key), the quoted
\* value and one of closes
Struct(text, head, closes, q, e) ==
    LET body == Strip(text)
        ends == {c \in closes : StartsWith(body, head) /\ EndsWith(body, c)
                                 /\ Len(body) >= Len(head) + Len(c)}
    IN  IF \E c \in ends :
              IsQuoted(SubSeq(body, Len(head) + 1, Len(body) - Len(c)), q)
        THEN LET c == CHOOSE c \in ends :
                        IsQuoted(SubSeq(body, Len(head) + 1, Len(body) - Len(c)), q)
             IN  Ok(CfgVal(Inner(SubSeq(body, Len(head) + 1, Len(body) - Len(c)))))
        ELSE Err(e)

\* serde_json::to_string_pretty: two spaces of indentation
json_to_string_pretty(v) ==
    IF v.ty = "String" THEN Str(Quoted(v.s))
    ELSE IF v.ty = "u16" THEN Str(Digits(v.n))
    ELSE Str(<<123>> \o Newline \o Space \o Space \o Quoted(TestKey)
             \o <<58>> \o Space \o Quoted(v.s) \o Newline \o <<125>>)

\* serde_json::from_str::<T>
json_from_str(T, text) ==
    IF T = "TestConfig"
    THEN Struct(text, <<123>> \o Quoted(TestKey) \o <<58>>, {<<125>>}, Quote, "Json")
    ELSE Scalar(T, text, Quote, "Json")

\* ron::ser::to_string_pretty with the indentor "\t"
ron_to_string_pretty(v) ==
    IF v.ty = "String" THEN Str(Quoted(v.s))
    ELSE IF v.ty = "u16" THEN Str(Digits(v.n))
    ELSE Str(<<40>> \o Newline \o Tab \o TestKey \o <<58>> \o Space
             \o Quoted(v.s) \o <<44>> \o Newline \o <<41>>)

\* ron::from_str::<T>: the comma after the last field is optional
ron_from_str(T, text) ==
    IF T = "TestConfig"
    THEN Struct(text, <<40>> \o TestKey \o <<58>>, {<<44, 41>>, <<41>>}, Quote,
                "RonDe")
    ELSE Scalar(T, text, Quote, "RonDe")

\* a YAML plain scalar of the model: letters and digits
IsPlain(text) ==
    /\ text # << >>
    /\ \A i \in 1..Len(text) :
          text[i] \in DigitChars \/ (text[i] >= 97 /\ text[i] <= 122)

\* a YAML scalar read as a String: quoted, or plain
yaml_str(text) ==
    IF IsQuoted(text, Apostrophe) \/ IsQuoted(text, Quote) THEN Ok(StrVal(Inner(text)))
    ELSE IF IsPlain(text) THEN Ok(StrVal(text))
    ELSE Err("Yaml")

\* serde_yaml::to_string: a string is plain unless it is empty or would read
\* as another scalar, and a line end follows
yaml_scalar(s) == IF IsPlain(s) /\ ~IsU16(s) THEN s ELSE Apostrophe \o s \o Apostrophe

yaml_to_string(v) ==
    IF v.ty = "String" THEN Str(yaml_scalar(v.s) \o Newline)
    ELSE IF v.ty = "u16" THEN Str(Digits(v.n) \o Newline)
    ELSE Str(TestKey \o <<58>> \o Space \o yaml_scalar(v.s) \o Newline)

\* serde_yaml::from_str::<T>
yaml_from_str(T, text) ==
    LET doc == Trim(text)
        key == TestKey \o <<58>> \o Space
    IN  IF T = "String" THEN yaml_str(doc)
        ELSE IF T = "u16"
        THEN IF IsU16(doc) THEN Ok(U16Val(Number(doc))) ELSE Err("Yaml")
        ELSE IF StartsWith(doc, key)
        THEN LET field == yaml_str(TrimLeft(Drop(doc, Len(key))))
             IN  IF field.kind = "Ok" THEN Ok(CfgVal(field.val.s)) ELSE Err("Yaml")
        ELSE Err("Yaml")

\* toml::to_string_pretty: a document is a table, and a value that is not one
\* is an unsupported type
toml_to_string_pretty(v) ==
    IF v.ty = "TestConfig"
    THEN Str(TestKey \o Space \o <<61>> \o Space \o Quoted(v.s) \o Newline)
    ELSE StrErr("TomlSer")

\* toml::from_str::<T>: the document is a table, never a String or a u16; the
\* string of the field is basic ("..") or literal ('..')
toml_from_str(T, text) ==
    IF T = "TestConfig"
    THEN LET basic == Struct(text, TestKey \o <<61>>, {<< >>}, Quote, "TomlDe")
         IN  IF basic.kind = "Ok" THEN basic
             ELSE Struct(text, TestKey \o <<61>>, {<< >>}, Apostrophe, "TomlDe")
    ELSE Err("TomlDe")

to_string_pretty(kind, v) ==
    CASE kind = "Toml" -> toml_to_string_pretty(v)
      [] kind = "Json" -> json_to_string_pretty(v)
      [] kind = "Yaml" -> yaml_to_string(v)
      [] kind = "Ron" -> ron_to_string_pretty(v)

from_str(kind, T, text) ==
    CASE kind = "Toml" -> toml_from_str(T, text)
      [] kind = "Json" -> json_from_str(T, text)
      [] kind = "Yaml" -> yaml_from_str(T, text)
      [] kind = "Ron" -> ron_from_str(T, text)

\* the path load_X and store_X resolve
TextPath(kind, location) == config_location(AppName, None, as_str(kind), location)
TextPaths == {TextPath(kind, MainLoc) : kind \in TextKinds}

\* what a load_X meets: no file, bytes that are not UTF-8, a text that does
\* not decode into T, or one that does
TextClass(kind, T, file) ==
    IF ~file.exists THEN "absent"
    ELSE IF ~IsUtf8(file.data) THEN "not_utf8"
    ELSE IF from_str(kind, T, file.data).kind = "Err" THEN "undecodable"
    ELSE "valid"

\* the steps store_X and load_X record in last
TextCall(op, kind, location, T, data, reset_conf_on_err, res, file) ==
    LET path == TextPath(kind, location) IN
    /\ CreateDir(location)
    /\ fs' = [fs EXCEPT ![path] = file]
    /\ origin' = IF file = fs[path] THEN origin
                 ELSE [origin EXCEPT ![path] =
                        Written(IF op = "store" THEN "store"
                                ELSE IF fs[path].exists THEN "reset"
                                ELSE "bootstrap",
                                IF op = "store" THEN data ELSE TextDefault(T), @)]
    /\ last' = [op |-> op, loc |-> location, ty |-> T, val |-> data,
                reset |-> reset_conf_on_err, res |-> res,
                from |-> From(origin[path]),
                found |-> TextClass(kind, T, fs[path]),
                wrote |-> (op = "store" \/ file # fs[path]),
                kept |-> (file = fs[path]),
                path |-> path, args |-> <<AppName, None, kind>>]
    /\ UNCHANGED proc

\* a store_X that writes a digest before the string
StoreText_with_digest(kind, location, data) ==
    \E text \in {to_string_pretty(kind, data)} :
        TextCall("store", kind, location, data.ty, data, FALSE,
                 IF text.kind = "Ok" THEN Ok(NoVal) ELSE Err(text.err),
                 File(IF text.kind = "Ok" THEN xxh3_128(text.bytes) \o text.bytes
                      ELSE << >>))

\* store_X(app, None, location, data): File::create truncates the file, then
\* the value is serialized; the string is written when that went well
StoreText(kind, location, data) ==
    \E text \in {to_string_pretty(kind, data)} :
        TextCall("store", kind, location, data.ty, data, FALSE,
                 IF text.kind = "Ok" THEN Ok(NoVal) ELSE Err(text.err),
                 File(text.bytes))

\* save_default_conf of load_X: the default is serialized, then written
text_save_default_conf(kind, T, file) ==
    LET text == to_string_pretty(kind, TextDefault(T)) IN
    IF text.kind = "Ok" THEN [res |-> Ok(TextDefault(T)), file |-> File(text.bytes)]
    ELSE [res |-> Err(text.err),
          file |-> IF kind = "Json" THEN File(<< >>) ELSE file]

\* load_X::<T>(app, None, location, reset_conf_on_err)
LoadText(kind, location, T, reset_conf_on_err) ==
    LET file == fs[TextPath(kind, location)]
        config == from_str(kind, T, file.data)
        out == IF ~file.exists THEN text_save_default_conf(kind, T, file)
               ELSE IF ~IsUtf8(file.data) THEN [res |-> Err("Io"), file |-> file]
               ELSE IF config.kind = "Ok" THEN [res |-> config, file |-> file]
               ELSE IF reset_conf_on_err THEN text_save_default_conf(kind, T, file)
               ELSE [res |-> config, file |-> file]
    IN  TextCall("load", kind, location, T, NoVal, reset_conf_on_err,
                 out.res, out.file)

store_toml(location, data) == StoreText("Toml", location, data)
store_json(location, data) == StoreText("Json", location, data)
store_yaml(location, data) == StoreText("Yaml", location, data)
store_ron(location, data) == StoreText("Ron", location, data)
load_toml(location, T, reset_conf_on_err) ==
    LoadText("Toml", location, T, reset_conf_on_err)
load_json(location, T, reset_conf_on_err) ==
    LoadText("Json", location, T, reset_conf_on_err)
load_yaml(location, T, reset_conf_on_err) ==
    LoadText("Yaml", location, T, reset_conf_on_err)
load_ron(location, T, reset_conf_on_err) ==
    LoadText("Ron", location, T, reset_conf_on_err)

\* another program replaces the file of a format by bytes of its own: an empty
\* file, the letter 'o', the byte 0xFF
TextJunk == {<< >>, <<111>>, <<255>>}

OverwriteText(kind, bytes) ==
    LET path == TextPath(kind, MainLoc) IN
    /\ conf_dir(AppName, MainLoc) \in dirs
    /\ origin[path].tamper = "none"
    /\ fs' = [fs EXCEPT ![path] = File(bytes)]
    /\ origin' = [origin EXCEPT ![path].tamper = "overwrite",
                                ![path].pos = Len(bytes)]
    /\ last' = [NoCall EXCEPT !.op = "overwrite", !.loc = MainLoc,
                              !.from = From(origin[path]),
                              !.kept = (File(bytes) = fs[path]),
                              !.path = path, !.args = <<AppName, None, kind>>]
    /\ UNCHANGED <<dirs, proc>>

\* SpecText: a program keeps its configuration in one of the four formats
InitText ==
    /\ fs = [path \in TextPaths |-> NoFile]
    /\ dirs = {}
    /\ origin = [path \in TextPaths |-> NoOrigin]
    /\ last = NoCall
    /\ proc = [p \in Procs |-> Idle]

OneKind(kind) == IF last.args = << >> THEN TRUE ELSE last.args[3] = kind

NextText ==
    \/ \E v \in TextValues : OneKind("Toml") /\ store_toml(MainLoc, v)
    \/ \E v \in TextValues : OneKind("Json") /\ store_json(MainLoc, v)
    \/ \E v \in TextValues : OneKind("Yaml") /\ store_yaml(MainLoc, v)
    \/ \E v \in TextValues : OneKind("Ron") /\ store_ron(MainLoc, v)
    \/ \E T \in TextTypes, r \in BOOLEAN : OneKind("Toml") /\ load_toml(MainLoc, T, r)
    \/ \E T \in TextTypes, r \in BOOLEAN : OneKind("Json") /\ load_json(MainLoc, T, r)
    \/ \E T \in TextTypes, r \in BOOLEAN : OneKind("Yaml") /\ load_yaml(MainLoc, T, r)
    \/ \E T \in TextTypes, r \in BOOLEAN : OneKind("Ron") /\ load_ron(MainLoc, T, r)
    \/ \E kind \in TextKinds, bytes \in TextJunk :
           OneKind(kind) /\ OverwriteText(kind, bytes)

SpecText == InitText /\ [][NextText]_vars

\* ------------------------------------------------- binary.rs (hex digest)
\* The earlier binary format: the file is bincode of Config { hash, data },
\* hash being the MD5 of the serialized data as a lowercase hexadecimal String.
\* The digest of the model is free of collisions the way xxh3_128 is.
Md5(payload) == [k \in 1..16 |-> (DigestByte(payload, k) + 101) % 256]

\* format!("{:x}", digest): two lowercase hexadecimal digits for each byte
HexDigit(d) == IF d < 10 THEN 48 + d ELSE 87 + d
Hex(bytes) ==
    [i \in 1..(2 * Len(bytes)) |->
        IF i % 2 = 1 THEN HexDigit(bytes[(i + 1) \div 2] \div 16)
        ELSE HexDigit(bytes[i \div 2] % 16)]

\* the hash of Config::new(data)
ConfigHash(data) == Hex(Md5(serialize(data)))

\* bincode::serialize_into(file, &Config::new(data)): the hash as a String,
\* then the data
ConfigRecord(data) == serialize(StrVal(ConfigHash(data))) \o serialize(data)

\* bincode::deserialize_from(reader) into Config<T>: hash and data, or the
\* error of the first of them that does not decode
deserialize_config(T, bytes) ==
    LET hash == deserialize_from("String", bytes) IN
    IF hash.kind # "Ok" THEN [kind |-> hash.kind, hash |-> << >>, data |-> NoVal]
    ELSE LET data == deserialize_from(T, Drop(bytes, 8 + Len(hash.val.s))) IN
         IF data.kind # "Ok" THEN [kind |-> data.kind, hash |-> << >>, data |-> NoVal]
         ELSE [kind |-> "Ok", hash |-> hash.val.s, data |-> data.val]

\* the path load and store of binary.rs resolve: the file has the name of the
\* application, without an extension
LegacyPath(location) == join(conf_dir(AppName, location), AppName)
LegacyPaths == {LegacyPath(MainLoc)}

\* what a load meets
LegacyClass(T, file) ==
    IF ~file.exists THEN "absent"
    ELSE LET config == deserialize_config(T, file.data) IN
         IF config.kind = "Abort" THEN "overlong"
         ELSE IF config.kind = "Err" THEN "undecodable"
         ELSE IF config.hash # ConfigHash(config.data) THEN "mismatch"
         ELSE "valid"

\* the body of load, on the file as it is when the call is made; check: the
\* stored hash is compared
load_body(T, file, reset_conf_on_err, check) ==
    LET default == [res |-> Ok(Default(T)), file |-> File(ConfigRecord(Default(T)))]
        config == deserialize_config(T, file.data)
    IN  IF ~file.exists THEN default
        ELSE IF config.kind = "Abort" THEN [res |-> Abort, file |-> file]
        ELSE IF config.kind = "Err"
        THEN IF reset_conf_on_err THEN default
             ELSE [res |-> Err("Bincode"), file |-> file]
        ELSE IF check /\ config.hash # ConfigHash(config.data)
        THEN IF reset_conf_on_err THEN default
             ELSE [res |-> Err("HashMismatch"), file |-> file]
        ELSE [res |-> Ok(config.data), file |-> file]

\* the steps of binary.rs record in last
LegacyCall(op, location, T, data, reset_conf_on_err, out) ==
    LET path == LegacyPath(location) IN
    /\ CreateDir(location)
    /\ fs' = [fs EXCEPT ![path] = out.file]
    /\ origin' = IF op = "binary::store"
                 THEN [origin EXCEPT ![path] = Written(op, data, @)]
                 ELSE IF out.file # fs[path]
                 THEN [origin EXCEPT ![path] =
                        Written(IF fs[path].exists THEN "reset" ELSE "bootstrap",
                                Default(T), @)]
                 ELSE origin
    /\ last' = [op |-> op, loc |-> location, ty |-> T, val |-> data,
                reset |-> reset_conf_on_err, res |-> out.res,
                from |-> From(origin[path]),
                found |-> LegacyClass(T, fs[path]),
                wrote |-> (op = "binary::store" \/ out.file # fs[path]),
                kept |-> (out.file = fs[path]),
                path |-> path, args |-> <<AppName, None, "none">>]
    /\ UNCHANGED proc

\* a load that does not compare the stored hash
load_unchecked(location, T, reset_conf_on_err) ==
    LegacyCall("binary::load", location, T, NoVal, reset_conf_on_err,
               load_body(T, fs[LegacyPath(location)], reset_conf_on_err, FALSE))

\* binary::load::<T>(app, None, location, reset_conf_on_err)
load(location, T, reset_conf_on_err) ==
    LegacyCall("binary::load", location, T, NoVal, reset_conf_on_err,
               load_body(T, fs[LegacyPath(location)], reset_conf_on_err, TRUE))

\* binary::store(app, None, location, data)
store(location, data) ==
    LegacyCall("binary::store", location, data.ty, data, FALSE,
               [res |-> Ok(NoVal), file |-> File(ConfigRecord(data))])

\* another program changes one byte of the record, once per record
CorruptLegacy(i, b) ==
    LET path == LegacyPath(MainLoc)
        cur == fs[path]
    IN  /\ origin[path].tamper = "none"
        /\ cur.exists
        /\ i \in 1..Len(cur.data)
        /\ b # cur.data[i]
        /\ fs' = [fs EXCEPT ![path] = File([cur.data EXCEPT ![i] = b])]
        /\ origin' = [origin EXCEPT ![path].tamper = "corrupt", ![path].pos = i]
        /\ last' = [NoCall EXCEPT !.op = "corrupt", !.loc = MainLoc,
                                  !.from = From(origin[path]),
                                  !.kept = FALSE, !.path = path]
        /\ UNCHANGED <<dirs, proc>>

\* SpecLegacy: a program that uses binary.rs
InitLegacy ==
    /\ fs = [path \in LegacyPaths |-> NoFile]
    /\ dirs = {}
    /\ origin = [path \in LegacyPaths |-> NoOrigin]
    /\ last = NoCall
    /\ proc = [p \in Procs |-> Idle]

LegacyRecordLen == 8 + 2 * 16 + 8 + MaxStrLen

NextLegacy ==
    \/ \E v \in OneTypeValues : store(MainLoc, v)
    \/ \E T \in Types, r \in BOOLEAN : load(MainLoc, T, r)
    \/ \E i \in {1, 9, 40, 41, LegacyRecordLen}, b \in TamperBytes :
           CorruptLegacy(i, b)

SpecLegacy == InitLegacy /\ [][NextLegacy]_vars

\* ------------------------------------------------------------------ claims
\* the record of a value: the digest of its serialization, then the
\* serialization
Framed(v) == xxh3_128(serialize(v)) \o serialize(v)

IsLoad == last.op \in {"load_bin", "load_bin_skip_check"}
\* the file at the path of the last step, as that step left it
LastFile == fs[BinPath(last.loc)]
\* the last step met a file the library wrote (by) that nothing changed since
MetIntact(by) == last.from.by = by /\ last.from.tamper = "none"
ResetToDefault ==
    /\ last.res = Ok(Default(last.ty))
    /\ LastFile = File(Framed(Default(last.ty)))

\* C1: a load_bin::<T>, with either value of reset_conf_on_err, of the path
\* that a store_bin of a value v of type T wrote returns Ok(v), at each of the
\* locations Config, Cache, LocalData and Cwd.
C1_RoundTrip ==
    \A l \in Locations :
        (last.op = "load_bin" /\ last.loc = l /\ MetIntact("store_bin")
            /\ last.from.val.ty = last.ty)
        => last.res = Ok(last.from.val)

C1_Witness ==
    /\ last.op = "load_bin"
    /\ last.loc = "Cwd"
    /\ last.reset
    /\ MetIntact("store_bin")
    /\ last.res = Ok(StrVal(<<97>>))
    /\ fs[BinPath("Config")].exists

\* C2: a load_bin or load_bin_skip_check that finds no file returns
\* Ok(T::default()) and leaves the framed default record; a load_bin::<T> with
\* reset_conf_on_err = false that meets this record returns the same default
\* and does not write the file.
C2_Bootstrap ==
    /\ (IsLoad /\ last.found = "absent") => ResetToDefault
    /\ (last.op = "load_bin" /\ ~last.reset /\ MetIntact("bootstrap")
            /\ last.from.val.ty = last.ty)
       => (last.res = Ok(Default(last.ty)) /\ ~last.wrote /\ last.kept)

C2_Witness ==
    /\ last.op = "load_bin"
    /\ ~last.reset
    /\ MetIntact("bootstrap")
    /\ last.from.val.ty = last.ty
    /\ last.res = Ok(Default(last.ty))

\* C3: after one byte of the payload region of a record written by store_bin
\* has been changed, load_bin with reset_conf_on_err = false returns
\* Err(HashMismatch) and leaves the file as it was.
C3_CorruptionDetected ==
    (last.op = "load_bin" /\ ~last.reset /\ last.from.by = "store_bin"
        /\ last.from.tamper = "corrupt" /\ last.from.region = "payload")
    => (last.res = Err("HashMismatch") /\ last.kept /\ ~last.wrote)

C3_Witness ==
    /\ last.op = "load_bin"
    /\ ~last.reset
    /\ last.from.by = "store_bin"
    /\ last.from.tamper = "corrupt"
    /\ last.from.region = "payload"
    /\ last.found = "mismatch"
    /\ last.res = Err("HashMismatch")

\* C4: load_bin with reset_conf_on_err = true on a file of at least 16 bytes
\* whose stored digest differs from the digest of its payload returns
\* Ok(T::default()) and leaves exactly the framed default record.
C4_MismatchReset ==
    (last.op = "load_bin" /\ last.reset
        /\ last.found \in {"mismatch", "mismatch_undecodable",
                           "mismatch_overlong"})
    => (ResetToDefault /\ last.wrote)

C4_Witness ==
    /\ last.op = "load_bin"
    /\ last.reset
    /\ last.found = "mismatch"
    /\ last.from.val # Default(last.ty)
    /\ LastFile = File(Framed(Default(last.ty)))

\* C5: load_bin on a file of fewer than 16 bytes returns
\* Err(CorruptedHashSector) when reset_conf_on_err = false; when it is true it
\* returns Ok(T::default()) and the file becomes the framed default record.
C5_ShortFile ==
    (last.op = "load_bin" /\ last.found = "short")
    => IF last.reset THEN ResetToDefault
       ELSE last.res = Err("CorruptedHashSector") /\ last.kept

C5_Witness ==
    /\ last.op = "load_bin"
    /\ last.found = "short"
    /\ last.reset
    /\ last.from.tamper = "overwrite"
    /\ LastFile = File(Framed(Default(last.ty)))

\* C6: load_bin with reset_conf_on_err = false on a file whose digest matches
\* and whose payload does not decode into T returns the Bincode error and
\* leaves the file as it was.
C6_DecodeError ==
    (last.op = "load_bin" /\ ~last.reset /\ last.found = "undecodable")
    => (last.res = Err("Bincode") /\ last.kept /\ ~last.wrote)

C6_Witness ==
    /\ last.op = "load_bin"
    /\ ~last.reset
    /\ last.found = "undecodable"
    /\ last.res = Err("Bincode")

\* C7: load_bin and load_bin_skip_check with reset_conf_on_err = true on a
\* file whose payload does not decode into T return Ok(T::default()) and leave
\* exactly the framed default record.
C7_DecodeReset ==
    (IsLoad /\ last.reset
        /\ last.found \in {"undecodable", "mismatch_undecodable"})
    => (ResetToDefault /\ last.wrote)

C7_Witness ==
    /\ last.op = "load_bin_skip_check"
    /\ last.reset
    /\ last.found = "mismatch_undecodable"
    /\ last.from.val # Default(last.ty)
    /\ LastFile = File(Framed(Default(last.ty)))

\* C8: load_bin_skip_check on a file of at least 16 bytes whose digest does
\* not match and whose payload decodes into T returns Ok of the value decoded
\* from the payload, with either value of reset_conf_on_err, and leaves the
\* file as it was.
C8_FallbackRead ==
    (last.op = "load_bin_skip_check" /\ last.found = "mismatch")
    => /\ last.kept
       /\ ~last.wrote
       /\ last.res.kind = "Ok"
       /\ last.res = deserialize_from(last.ty,
                                      Drop(LastFile.data, HASH_BYTE_LENGTH))

C8_Witness ==
    /\ last.op = "load_bin_skip_check"
    /\ last.reset
    /\ last.found = "mismatch"
    /\ last.from.region = "payload"
    /\ last.res.kind = "Ok"
    /\ last.res.val # last.from.val

\* C9: load_bin_skip_check on a file of fewer than 16 bytes returns
\* Err(CorruptedHashSector) with either value of reset_conf_on_err.
C9_SkipCheckShortFile ==
    (last.op = "load_bin_skip_check" /\ last.found = "short")
    => last.res = Err("CorruptedHashSector")

\* C10: a store_bin(v2) over the record of a store_bin(v1) leaves exactly the
\* framed record of v2, of length 16 + len(serialize(v2)), and a load_bin of
\* it returns v2.
C10_NoMerge ==
    /\ (last.op = "store_bin" /\ MetIntact("store_bin"))
       => /\ LastFile = File(Framed(last.val))
          /\ Len(LastFile.data) = HASH_BYTE_LENGTH + Len(serialize(last.val))
    /\ (last.op = "load_bin" /\ MetIntact("store_bin")
            /\ last.from.over # NoVal /\ last.from.val.ty = last.ty)
       => (last.res = Ok(last.from.val) /\ LastFile = File(Framed(last.from.val)))

C10_Witness ==
    /\ last.op = "load_bin"
    /\ MetIntact("store_bin")
    /\ last.from.over # NoVal
    /\ Len(serialize(last.from.val)) < Len(serialize(last.from.over))
    /\ last.res = Ok(last.from.val)

\* C11: the file a store_bin of a value v leaves, whatever it met, has length
\* 16 + len(serialize(v)); its bytes 0..15 are the digest of serialize(v)
\* alone, and its bytes from offset 16 are serialize(v).
C11_Layout ==
    last.op = "store_bin"
    => LET written == fs[last.path].data
           payload == serialize(last.val)
       IN  /\ Len(written) = HASH_BYTE_LENGTH + Len(payload)
           /\ \A i \in 1..HASH_BYTE_LENGTH :
                written[i] = xxh3_128(payload)[i]
           /\ \A i \in 1..Len(payload) :
                written[HASH_BYTE_LENGTH + i] = payload[i]

C11_Witness ==
    /\ last.op = "store_bin"
    /\ last.val = StrVal(<<97>>)
    /\ last.from.tamper = "corrupt"
    /\ Len(fs[last.path].data) = HASH_BYTE_LENGTH + 9
    /\ fs[last.path].data[HASH_BYTE_LENGTH + 9] = 97

\* C12: when the process of a store_bin dies after File::create and before
\* the whole record has reached the file, a load_bin with reset_conf_on_err =
\* false made next returns Err(CorruptedHashSector) if fewer than 16 bytes are
\* in the file and Err(HashMismatch) if 16 or more are; it returns no value.
C12_Interrupted ==
    (proc["p"].pc = "crashed" /\ proc["r"].op = "load_bin"
        /\ proc["r"].pc = "done")
    => /\ proc["r"].res.kind = "Err"
       /\ proc["r"].res = IF proc["p"].off < HASH_BYTE_LENGTH
                          THEN Err("CorruptedHashSector")
                          ELSE Err("HashMismatch")

C12_Witness ==
    /\ proc["p"].pc = "crashed"
    /\ proc["p"].off > HASH_BYTE_LENGTH
    /\ fs[StepPath] = File(Take(Framed(proc["p"].val), proc["p"].off))
    /\ proc["r"].pc = "done"
    /\ proc["r"].ty = proc["p"].ty
    /\ proc["r"].res = Err("HashMismatch")

\* both store_bin calls have returned Ok
BothStored ==
    \A x \in {"p", "q"} :
        proc[x].op = "store_bin" /\ proc[x].pc = "done" /\ proc[x].res = Ok(NoVal)
\* the load made after them, into the type of both values, has returned
LoadedAfter ==
    /\ proc["r"].pc = "done"
    /\ proc["r"].ty = proc["p"].ty
    /\ proc["r"].ty = proc["q"].ty

\* C13 as stated: after two store_bin calls that ran at the same time and
\* both returned Ok, the file is exactly the framed record of the value whose
\* write completed last, and a load_bin with reset_conf_on_err = false made
\* then returns one of the two values.
C13_LastWriteWins ==
    BothStored
    => /\ \A x \in {"p", "q"} :
            proc[x].latest => fs[StepPath] = File(Framed(proc[x].val))
       /\ LoadedAfter => proc["r"].res \in {Ok(proc["p"].val), Ok(proc["q"].val)}

\* C13 amended: the file is exactly the framed record of the value whose
\* write completed last when nothing of the other store_bin (its File::create,
\* any of its writes) came after the File::create of that call; in every
\* interleaving the load_bin made then returns one of the two values or
\* Err(HashMismatch), the file holding bytes of both records.
C13_LastWriteWinsIfAlone ==
    BothStored
    => /\ \A x \in {"p", "q"} :
            (proc[x].latest /\ proc[x].alone)
            => fs[StepPath] = File(Framed(proc[x].val))
       /\ LoadedAfter
          => proc["r"].res \in {Ok(proc["p"].val), Ok(proc["q"].val),
                                Err("HashMismatch")}

C13_Witness ==
    /\ BothStored
    /\ LoadedAfter
    /\ proc["q"].latest
    /\ ~proc["q"].alone
    /\ Len(proc["q"].buf) < Len(proc["p"].buf)
    /\ fs[StepPath] =
         File(proc["q"].buf \o Drop(proc["p"].buf, Len(proc["q"].buf)))
    /\ proc["r"].res = Err("HashMismatch")

\* C14: a load_bin::<T> with reset_conf_on_err = false that runs while a
\* store_bin(v_new) runs over the valid record of v_old (both of type T)
\* returns Ok(v_old), Ok(v_new), Err(CorruptedHashSector), Err(HashMismatch)
\* or the Bincode error; it returns no other value and writes nothing.
C14_TornRead ==
    (proc["r"].op = "load_bin" /\ proc["r"].pc = "done"
        /\ origin[StepPath].by = "store_bin"
        /\ proc["r"].ty = origin[StepPath].val.ty
        /\ proc["p"].ty \in {"none", proc["r"].ty})
    => /\ proc["r"].res \in {Ok(origin[StepPath].val), Ok(proc["p"].val),
                             Err("CorruptedHashSector"), Err("HashMismatch"),
                             Err("Bincode")}
       /\ proc["r"].res # Ok(NoVal)
       /\ ~proc["r"].created

C14_Witness ==
    /\ proc["r"].op = "load_bin"
    /\ proc["r"].pc = "done"
    /\ proc["p"].created
    /\ proc["p"].ty = proc["r"].ty
    /\ origin[StepPath].val.ty = proc["r"].ty
    /\ Len(proc["r"].data) > HASH_BYTE_LENGTH
    /\ Take(proc["r"].data, HASH_BYTE_LENGTH)
         = Take(prepare_serialized_data(origin[StepPath].val), HASH_BYTE_LENGTH)
    /\ Drop(proc["r"].data, HASH_BYTE_LENGTH) = serialize(proc["p"].val)
    /\ proc["r"].res = Err("HashMismatch")

\* C15: a call whose write to the opened file meets an I/O error returns
\* Err(Io), be it store_bin or the default a load_bin writes; store_bin
\* returns Ok(()) only when every byte of the framed record is in the file.
C15_WriteErrorReturned ==
    proc["p"].pc = "done"
    => /\ proc["p"].failed = "write" => proc["p"].res = Err("Io")
       /\ (proc["p"].op = "store_bin" /\ proc["p"].res = Ok(NoVal))
          => proc["p"].off = Len(proc["p"].buf)

\* C16: a load_bin whose config_location, try_exists, File::open or
\* read_to_end meets an I/O error returns Err(Io) with either value of
\* reset_conf_on_err and has not created or written the file; when the file is
\* deleted between try_exists and File::open the call returns Err(Io), not
\* the default, and the file stays absent.
C16_FsErrorFatal ==
    (proc["p"].op = "load_bin" /\ proc["p"].pc = "done")
    => /\ proc["p"].failed \in {"resolve", "exists", "open", "read", "vanished"}
          => (proc["p"].res = Err("Io") /\ ~proc["p"].created)
       /\ proc["p"].failed = "vanished" => ~fs[StepPath].exists

C16_Witness ==
    /\ proc["p"].op = "load_bin"
    /\ proc["p"].pc = "done"
    /\ proc["p"].reset
    /\ proc["p"].failed = "vanished"
    /\ proc["p"].res = Err("Io")
    /\ ~fs[StepPath].exists

\* C17: whatever calls and changes from outside came before it, the result of
\* a load_bin::<T> and the file it leaves are fixed by the file it meets, T
\* and reset_conf_on_err: an absent file, or with reset_conf_on_err = true a
\* short, mismatching or undecodable one, gives the default and its framed
\* record; with reset_conf_on_err = false these give CorruptedHashSector,
\* HashMismatch and the Bincode error and the file stays; a valid record gives
\* its value and stays.
C17_Stateless ==
    last.op = "load_bin"
    => CASE last.found = "absent" -> ResetToDefault
         [] last.found = "valid" ->
               /\ last.kept
               /\ last.res.kind = "Ok"
               /\ serialize(last.res.val)
                    = Take(Drop(LastFile.data, HASH_BYTE_LENGTH),
                           Len(serialize(last.res.val)))
         [] last.found \in {"short", "mismatch", "mismatch_undecodable",
                            "mismatch_overlong", "undecodable"} ->
               IF last.reset THEN ResetToDefault
               ELSE /\ last.kept
                    /\ last.res =
                         CASE last.found = "short" -> Err("CorruptedHashSector")
                           [] last.found = "undecodable" -> Err("Bincode")
                           [] OTHER -> Err("HashMismatch")
         [] last.found = "overlong" -> last.kept /\ last.res = Abort

\* a load_bin that reset the file came before, the record it wrote has been
\* changed since, and this load_bin with reset_conf_on_err = false reports it
C17_Witness ==
    /\ last.op = "load_bin"
    /\ ~last.reset
    /\ last.from.by = "reset"
    /\ last.from.tamper = "corrupt"
    /\ last.res = Err("HashMismatch")
    /\ last.kept

\* C18 as stated: a load_bin::<B> with reset_conf_on_err = false of the
\* record a store_bin wrote for a value of another type A returns an error.
C18_TypeMismatch ==
    (last.op = "load_bin" /\ ~last.reset /\ MetIntact("store_bin")
        /\ last.from.val.ty # last.ty)
    => last.res.kind = "Err"

\* C18 amended: that load returns the Bincode error when the payload of A
\* does not decode as B (a u16 read as a String); when the first bytes of the
\* payload are an encoding of B it returns Ok of the value they encode (a
\* String read as a u16 gives its length); the file stays as it was.
C18_TypeMismatchDecodes ==
    (last.op = "load_bin" /\ ~last.reset /\ MetIntact("store_bin")
        /\ last.from.val.ty # last.ty)
    => /\ last.kept
       /\ ~last.wrote
       /\ last.res = IF last.ty = "String" THEN Err("Bincode")
                     ELSE Ok(U16Val(Len(last.from.val.s)))

C18_Witness ==
    /\ last.op = "load_bin"
    /\ ~last.reset
    /\ MetIntact("store_bin")
    /\ last.from.val = StrVal(<<97>>)
    /\ last.ty = "u16"
    /\ last.res = Ok(U16Val(1))

\* the extension the claims give for each ConfigType
Ext(kind) ==
    CASE kind = "Toml" -> "toml"
      [] kind = "Json" -> "json"
      [] kind = "Yaml" -> "yml"
      [] kind = "Ron" -> "ron"
      [] kind = "Bin" -> "bin"
\* store_bin and load_bin with the same app, None and location resolve
\* base(loc)/app/app.bin, and the record of store_bin is at that path
SamePathForBin ==
    /\ (IsLoad \/ last.op = "store_bin")
       => /\ last.path = <<conf_base(last.loc), AppName, "app.bin">>
          /\ last.path = BinPath(last.loc)
    /\ last.op = "store_bin" => fs[last.path] = File(Framed(last.val))

C20_NoFileEffect ==
    [][last'.op = "get_configuration_path"
        => /\ fs' = fs
           /\ origin' = origin
           /\ dirs' = dirs \cup {<<conf_base(last'.loc), last'.args[1]>>}]_vars

\* the call named a file that exists, and the file is the record stored before
C20_Witness ==
    /\ last.op = "get_configuration_path"
    /\ last.args = <<AppName, None, "Bin">>
    /\ last.path = BinPath(last.loc)
    /\ fs[last.path] = File(Framed(StrVal(<<97>>)))
    /\ <<conf_base("Cache"), "other">> \notin dirs

\* C23: whatever file it meets, a load_bin::<T> with reset_conf_on_err = true
\* that returns Ok(x) leaves a file of at least 16 bytes whose digest matches
\* and whose payload decodes to x; a load_bin::<T> with reset_conf_on_err =
\* false made as the next step returns Ok(x) and leaves the file untouched.
C23_RepairByReset ==
    [][/\ (last'.op = "load_bin" /\ last'.reset /\ last'.res.kind = "Ok")
          => LET file == fs'[last'.path] IN
             /\ file.exists
             /\ Len(file.data) >= HASH_BYTE_LENGTH
             /\ Take(file.data, HASH_BYTE_LENGTH)
                  = xxh3_128(Drop(file.data, HASH_BYTE_LENGTH))
             /\ deserialize_from(last'.ty, Drop(file.data, HASH_BYTE_LENGTH))
                  = last'.res
       /\ (/\ last.op = "load_bin" /\ last.reset /\ last.res.kind = "Ok"
           /\ last'.op = "load_bin" /\ ~last'.reset
           /\ last'.ty = last.ty /\ last'.loc = last.loc)
          => (last'.res = last.res /\ ~last'.wrote /\ fs' = fs)]_vars

\* a load_bin with reset_conf_on_err = true that met a changed record
C23_Witness ==
    /\ last.op = "load_bin"
    /\ last.reset
    /\ last.found = "mismatch_undecodable"
    /\ last.from.tamper = "corrupt"
    /\ last.wrote
    /\ last.res = Ok(Default(last.ty))
    /\ FileClass(last.ty, LastFile) = "valid"

\* C24: load_bin with reset_conf_on_err = false on an existing file returns
\* CorruptedHashSector exactly when the file has fewer than 16 bytes;
\* otherwise HashMismatch exactly when bytes 0..15 differ from the digest of
\* the bytes from 16; otherwise the Bincode error exactly when those bytes do
\* not decode into T; otherwise Ok of the decoded value.  The file stays.
C24_OrderOfChecks ==
    (last.op = "load_bin" /\ ~last.reset /\ last.found # "absent")
    => LET data == LastFile.data
           short == Len(data) < HASH_BYTE_LENGTH
           differs == Take(data, HASH_BYTE_LENGTH)
                        # xxh3_128(Drop(data, HASH_BYTE_LENGTH))
           decoded == deserialize_from(last.ty, Drop(data, HASH_BYTE_LENGTH))
       IN  /\ last.kept
           /\ last.res = Err("CorruptedHashSector") <=> short
           /\ ~short => (last.res = Err("HashMismatch") <=> differs)
           /\ (~short /\ ~differs)
              => (last.res = Err("Bincode") <=> decoded.kind = "Err")
           /\ (~short /\ ~differs /\ decoded.kind = "Ok")
              => last.res = decoded

\* a file of exactly 16 bytes passes the size check
C24_Witness ==
    /\ last.op = "load_bin"
    /\ ~last.reset
    /\ LastFile.exists
    /\ Len(LastFile.data) = HASH_BYTE_LENGTH
    /\ last.res = Err("HashMismatch")

C28_ReadOnlyLoad ==
    [][/\ (IsLoad' /\ last'.found = "valid")
          => /\ ~last'.wrote
             /\ fs' = fs /\ origin' = origin
             /\ last'.res
                  = deserialize_from(last'.ty,
                                     Drop(fs[last'.path].data, HASH_BYTE_LENGTH))
       /\ (IsLoad' /\ ~last'.reset /\ last'.found # "absent")
          => (~last'.wrote /\ fs' = fs /\ origin' = origin)
       /\ (/\ IsLoad /\ last.found = "valid"
           /\ IsLoad' /\ last'.ty = last.ty /\ last'.loc = last.loc)
          => (last'.res = last.res /\ last'.found = "valid")]_vars

\* a load with reset_conf_on_err = true read a stored record and kept it
C28_Witness ==
    /\ IsLoad
    /\ last.reset
    /\ last.found = "valid"
    /\ last.from.by = "store_bin"
    /\ last.from.tamper = "none"
    /\ last.res = Ok(last.from.val)
    /\ last.res # Ok(Default(last.ty))
    /\ LastFile = File(prepare_serialized_data(last.from.val))

\* C29: in a run of completed store_bin, load_bin and load_bin_skip_check
\* calls with one type T on one path, starting without the file and with no
\* other writer, the file is absent or a record of at least 16 bytes whose
\* digest matches and whose payload decodes into T; no load returns an error
\* and none writes unless the file was absent.
C29_ValidRecord ==
    /\ \A T \in Types :
          last.ty = T => FileClass(T, fs[BinPath(MainLoc)]) \in {"absent", "valid"}
    /\ last.ty = "none" => ~fs[BinPath(MainLoc)].exists
    /\ IsLoad => /\ last.res.kind = "Ok"
                 /\ last.found \in {"absent", "valid"}
                 /\ last.wrote <=> last.found = "absent"

\* a load that follows a store which replaced a longer record
C29_Witness ==
    /\ IsLoad
    /\ last.found = "valid"
    /\ last.from.by = "store_bin"
    /\ last.from.over # NoVal
    /\ Len(serialize(last.from.over)) > Len(serialize(last.from.val))
    /\ last.res = Ok(last.from.val)

\* a store_bin(v) and a load_bin::<T>(reset_conf_on_err = true) that ran at
\* the same time over a record of T have both returned Ok
StoredAndLoaded ==
    /\ proc["p"].op = "store_bin" /\ proc["p"].pc = "done"
    /\ proc["p"].res = Ok(NoVal)
    /\ proc["r"].op = "load_bin" /\ proc["r"].pc = "done"
    /\ proc["r"].reset
    /\ proc["r"].res.kind = "Ok"
    /\ proc["r"].ty = proc["p"].ty
    /\ proc["r"].ty = origin[StepPath].val.ty

\* C30 as stated: when both calls have returned Ok the file is the framed
\* record of v or the framed record of the default, and the load has
\* returned v, the previous value or the default.
C30_StoreVersusReset ==
    StoredAndLoaded
    => /\ fs[StepPath] \in {File(Framed(proc["p"].val)),
                            File(Framed(Default(proc["r"].ty)))}
       /\ proc["r"].res \in {Ok(proc["p"].val), Ok(origin[StepPath].val),
                             Ok(Default(proc["r"].ty))}

\* C30 amended: the file is the framed record of v or of the default when
\* the load wrote nothing, or when nothing of the other call (its
\* File::create, any of its writes) came after the File::create of the call
\* whose write completed last; in every interleaving the load has returned
\* v, the previous value or the default.
C30_StoreVersusResetIfAlone ==
    StoredAndLoaded
    => /\ (~proc["r"].created
           \/ \E x \in {"p", "r"} : proc[x].latest /\ proc[x].alone)
          => fs[StepPath] \in {File(Framed(proc["p"].val)),
                               File(Framed(Default(proc["r"].ty)))}
       /\ proc["r"].res \in {Ok(proc["p"].val), Ok(origin[StepPath].val),
                             Ok(Default(proc["r"].ty))}

\* the load read the cut record, and its default went into the file between
\* the writes of the store: the file holds bytes of both
C30_Witness ==
    /\ StoredAndLoaded
    /\ proc["r"].created
    /\ proc["p"].created
    /\ proc["r"].res = Ok(Default(proc["r"].ty))
    /\ proc["p"].val # Default(proc["r"].ty)
    /\ fs[StepPath] \notin {File(Framed(proc["p"].val)),
                            File(Framed(Default(proc["r"].ty)))}

\* the format of the last step, the file at its path, the error its
\* deserializer returns
TextKind == last.args[3]
TextFile == fs[last.path]
DeError(kind) ==
    CASE kind = "Toml" -> "TomlDe"
      [] kind = "Json" -> "Json"
      [] kind = "Yaml" -> "Yaml"
      [] kind = "Ron" -> "RonDe"

\* C21 as stated: for each of the four formats and every value v, store_X(v)
\* leaves the serialized string alone in the file, and a load_X::<T> with
\* reset_conf_on_err = false of that file returns Ok(v).
C21_TextRoundTrip ==
    /\ last.op = "store"
       => /\ last.res = Ok(NoVal)
          /\ TextFile = File(to_string_pretty(TextKind, last.val).bytes)
    /\ (last.op = "load" /\ ~last.reset /\ MetIntact("store")
           /\ last.from.val.ty = last.ty)
       => last.res = Ok(last.from.val)

\* C21 amended: the same for every value v that the serializer of the format
\* accepts, that is, when store_X(v) returns Ok(()).
C21_TextRoundTripIfStored ==
    /\ (last.op = "store" /\ last.res = Ok(NoVal))
       => /\ to_string_pretty(TextKind, last.val).kind = "Ok"
          /\ TextFile = File(to_string_pretty(TextKind, last.val).bytes)
          /\ TextFile.data # << >>
          /\ from_str(TextKind, last.ty, TextFile.data) = Ok(last.val)
    /\ (last.op = "load" /\ ~last.reset /\ MetIntact("store")
           /\ last.from.val.ty = last.ty
           /\ to_string_pretty(TextKind, last.from.val).kind = "Ok")
       => (last.res = Ok(last.from.val) /\ last.kept)

\* a load_toml returned the struct a store_toml wrote
C21_Witness ==
    /\ last.op = "load"
    /\ TextKind = "Toml"
    /\ ~last.reset
    /\ MetIntact("store")
    /\ last.ty = "TestConfig"
    /\ last.from.val # TextDefault(last.ty)
    /\ last.res = Ok(last.from.val)

\* C22: when the content of the file does not decode into T, load_X with
\* reset_conf_on_err = false returns the deserialization error of the format
\* and leaves the file as it was; with reset_conf_on_err = true it returns
\* Ok(T::default()) and the file holds the serialized default.
C22_TextRecovery ==
    (last.op = "load" /\ last.found \in {"not_utf8", "undecodable"})
    => IF last.reset
       THEN /\ last.res = Ok(TextDefault(last.ty))
            /\ to_string_pretty(TextKind, TextDefault(last.ty)).kind = "Ok"
            /\ TextFile
                 = File(to_string_pretty(TextKind, TextDefault(last.ty)).bytes)
       ELSE /\ last.res = Err(DeError(TextKind))
            /\ last.kept

\* the record of binary.rs: the hexadecimal digest as a String, then the data
LegacyFramed(v) ==
    U64Le(2 * 16) \o Hex(Md5(serialize(v))) \o serialize(v)

C26_NoAbort == IsLoad => last.res.kind \in {"Ok", "Err"}
====
